---- MODULE Spec2Model ----
(***************************************************************************)
(* gensim/models/phrases.py: collocation (phrase) detection.               *)
(*                                                                         *)
(* The module models the two counters (DictWordCounter, CMSketchCounter),  *)
(* prune_vocab, and the Phrases model: learn_vocab / add_vocab (one step   *)
(* per sentence pulled from the input iterable, then the merge) and        *)
(* __getitem__ on a single sentence.                                       *)
(*                                                                         *)
(* Specifications                                                          *)
(*  - Spec, SpecApprox: a Phrases model in exact / approximate mode;       *)
(*  - SpecScenario: the "new york is big" corpus;                          *)
(*  - SpecCounter: one counter driven through update_counts, prune_vocab;  *)
(*  - SpecCells: two sketches, large increments, the table addition;       *)
(*  - SpecTransform: __getitem__ on any counter state;                     *)
(*  - SpecConstruct: the constructors, with valid and invalid arguments.   *)
(*                                                                         *)
(* Modelling conventions                                                   *)
(*  - a unicode token is the record [u |-> text]; its utf8 form is the     *)
(*    string text (ASCII tokens), which is what the counters are keyed by; *)
(*  - the float score is kept as an exact rational (numerator and          *)
(*    denominator), so `score > threshold` is decided without rounding;    *)
(*  - the sketches are scaled down (width, depth, modulus PRIME).           *)
(***************************************************************************)
EXTENDS Integers, Sequences, FiniteSets, TLC

\* ------------------------------------------------------------------ bounds
\* longest sentence drawn as an input
MaxLen == 3
\* sentences pulled from the input iterables over one run (all add_vocab calls)
MaxSentences == 2
\* add_vocab calls over one run
MaxPasses == 2
\* largest min_count a model is constructed with
MaxMinCount == 2
\* sketch width (int(ceil(2 / epsilon)) in the source) and depth
\* (int(ceil(log(1 / delta)))) of the sketches the counter-level specification
\* constructs, scaled down
W == 2
D == 2
\* width and depth of the sketch Phrases constructs (CMSketchCounter() with the
\* default delta and epsilon: 40,000,000 x 5 in the source), scaled down
DefaultWidth == 2
DefaultDepth == 1
\* modulus of the hash family (_PRIME in the source), scaled down
PRIME == 3
\* largest increment and number of calls drawn in the counter-level specification
MaxIncrement == 2
MaxCalls == 4
\* largest threshold a model of the concrete scenario is constructed with
MaxThreshold == 12
\* the large increment of the specification of the sketch's cells (2^30)
LargeIncrement == 1073741824
\* largest count (dict entry, sketch cell) of the counter states __getitem__ is
\* applied to in its own specification
MaxCount == 3

\* ------------------------------------------------------- program constants
\* default threshold (Phrases.__init__)
DefaultThreshold == 10
\* default max_vocab_size (Phrases.__init__)
DefaultMaxVocabSize == 40000000
\* sys.maxint, the start value of the minimum in CMSketchCounter.__getitem__
sys_maxint == 2147483647
\* largest value of a cell of the sketch's table (dtype='int32')
INT32_MAX == 2147483647

\* the glue between the two tokens of a bigram key (default of Phrases.__init__)
delimiter == "_"

VARIABLES
    exact_count,      \* self.exact_count
    min_count,        \* self.min_count
    threshold,        \* self.threshold
    max_vocab_size,   \* self.max_vocab_size
    vocab,            \* self.vocab: the accumulated counter
    min_reduce,       \* self.min_reduce
    pc,               \* "idle", or "learning" while add_vocab is inside learn_vocab
    lv_vocab,         \* learn_vocab's local vocab (the fresh counter)
    lv_min_reduce,    \* learn_vocab's local min_reduce (kept after it returned)
    sentence,         \* the argument of the last __getitem__
    new_s,            \* the result of the last __getitem__
    trace,            \* history: what the last __getitem__ did at each position
    passes,           \* history: the sentences consumed, one sequence per add_vocab
    hist              \* history: last operation, prune calls, true totals added

vars == <<exact_count, min_count, threshold, max_vocab_size, vocab, min_reduce,
          pc, lv_vocab, lv_min_reduce, sentence, new_s, trace, passes, hist>>

config == <<exact_count, min_count, threshold, max_vocab_size>>

\* ------------------------------------------------------------------ tokens
\* utf8 token texts the inputs are drawn from (none contains the delimiter)
TokenOrder == <<"a", "b", "c">>
Tokens == {TokenOrder[i] : i \in 1..Len(TokenOrder)}
\* the smaller alphabet of the approximate-mode and counter-level specifications
FewTokens == {TokenOrder[i] : i \in 1..(Len(TokenOrder) - 1)}

\* utils.to_unicode / utils.any2utf8 on ASCII text
to_unicode(w) == [u |-> w]
any2utf8(w) == w.u

SeqsUpTo(S, n) == UNION {[1..k -> S] : k \in 0..n}
\* a sentence: a list of unicode tokens
Sentences == SeqsUpTo({to_unicode(t) : t \in Tokens}, MaxLen)
\* the shorter sentences of the approximate-mode specification
FewSentences == SeqsUpTo({to_unicode(t) : t \in FewTokens}, MaxLen - 1)

\* delimiter.join(bigram)
join(sep, bigram) == bigram[1] \o sep \o bigram[2]

Max(x, y) == IF x >= y THEN x ELSE y
Min(x, y) == IF x <= y THEN x ELSE y
abs(x) == IF x < 0 THEN -x ELSE x

\* ------------------------------------------------------- DictWordCounter
DictWordCounter == [kind |-> "dict", d |-> [k \in {} |-> 0]]

\* faulty variant: self[key] = increment
DictUpdateCounts_assign(v, key, increment) ==
    [v EXCEPT !.d = (key :> increment) @@ v.d]

\* self[key] += increment on a defaultdict(int)
DictUpdateCounts(v, key, increment) ==
    [v EXCEPT !.d = IF key \in DOMAIN v.d
                    THEN [v.d EXCEPT ![key] = @ + increment]
                    ELSE (key :> (0 + increment)) @@ v.d]

\* ------------------------------------------------------- CMSketchCounter
\* Python's hash() of a key: some fixed integer per string, of either sign.
\* The keys are numbered (the literal "key", the tokens, the joined bigrams) and
\* every second one is given a negative hash.
KeyOrder ==
    LET toks == TokenOrder
        n == Len(toks)
    IN  <<"key">> \o toks
        \o [i \in 1..(n * n) |->
              join(delimiter, <<toks[((i - 1) \div n) + 1], toks[((i - 1) % n) + 1]>>)]

AllKeys == {KeyOrder[i] : i \in 1..Len(KeyOrder)}

py_hash_table ==
    [k \in AllKeys |->
        LET i == CHOOSE j \in 1..Len(KeyOrder) : KeyOrder[j] = k
        IN  IF i % 2 = 0 THEN -i ELSE i]

py_hash(key) == py_hash_table[key]

\* the coefficient pairs random.randrange(0, _PRIME - 1) can return
HashCoefficients == [a : 0..(PRIME - 2), b : 0..(PRIME - 2)]
\* the d hash functions one constructor call can draw
HashFamilies(d) == [1..d -> HashCoefficients]

\* lambda x: (a * x + b) % _PRIME % self.w
hash_function(h, w, x) == ((h.a * x + h.b) % PRIME) % w

\* CMSketchCounter.__init__ for a delta and an epsilon that give depth d and
\* width w, drawing the hash functions hf
CMSketchCounter(w, d, hf) ==
    [kind |-> "cms", conservative |-> TRUE, w |-> w, d |-> d,
     hash_functions |-> hf,
     count |-> [row \in 1..d |-> [column \in 0..(w - 1) |-> 0]]]

\* column = hash_function(abs(hash(key)))
Column(v, row, key) == hash_function(v.hash_functions[row], v.w, abs(py_hash(key)))

RECURSIVE CMSGetFrom(_, _, _, _)
CMSGetFrom(v, key, row, value) ==
    IF row > v.d THEN value
    ELSE CMSGetFrom(v, key, row + 1, Min(v.count[row][Column(v, row, key)], value))

\* CMSketchCounter.__getitem__
CMSGet(v, key) == CMSGetFrom(v, key, 1, sys_maxint)

\* the key whose estimate update_counts reads: the source reads self["key"],
\* the string literal, whatever key is being incremented
ChatKey(key) == "key"

\* addition of two int32 cells, wrapping as numpy does
int32_add(x, y) ==
    IF x >= 0 /\ y >= 0 /\ x > INT32_MAX - y
    THEN (x - INT32_MAX - 1) + (y - INT32_MAX - 1)
    ELSE IF x < 0 /\ y < 0 /\ x < ((-INT32_MAX) - 1) - y
         THEN (x + INT32_MAX + 1) + (y + INT32_MAX + 1)
         ELSE x + y

\* the int32 cell after `cell = max(cell, c + chat)`: the sum and the maximum
\* are computed in wider integers and the assignment into the table keeps the
\* low 32 bits (a sum above the largest cell value is the maximum)
conservative_cell(cell, c, chat) ==
    IF c >= 0 /\ chat >= 0 /\ c > INT32_MAX - chat
    THEN int32_add(c, chat)
    ELSE Max(cell, c + chat)

RECURSIVE CMSUpdateFrom(_, _, _, _, _)
CMSUpdateFrom(v, key, c, chat, row) ==
    IF row > v.d THEN v
    ELSE LET column == Column(v, row, key)
             cell == v.count[row][column]
             new == IF v.conservative THEN conservative_cell(cell, c, chat)
                    ELSE int32_add(cell, c)
         IN  CMSUpdateFrom([v EXCEPT !.count[row][column] = new], key, c, chat, row + 1)

\* CMSketchCounter.update_counts
CMSUpdateCounts(v, key, c) ==
    CMSUpdateFrom(v, key, c, CMSGet(v, ChatKey(key)), 1)

\* ------------------------------------------------- the counter interface
update_counts(v, key, c) ==
    IF v.kind = "dict" THEN DictUpdateCounts(v, key, c) ELSE CMSUpdateCounts(v, key, c)

\* the value of vocab[key]: the dict's count (a defaultdict(int) gives 0 for a key
\* it does not hold), or the sketch's estimate
getitem(v, key) ==
    IF v.kind = "dict"
    THEN (IF key \in DOMAIN v.d THEN v.d[key] ELSE 0)
    ELSE CMSGet(v, key)

\* the counter after vocab[key] was evaluated for every key of the set: a
\* defaultdict(int) inserts the key it is asked for and does not hold, with the
\* value 0; CMSketchCounter.__getitem__ assigns nothing
after_getitems(v, keys) ==
    IF v.kind = "dict"
    THEN [v EXCEPT !.d = [k \in (DOMAIN v.d) \cup keys |->
                            IF k \in DOMAIN v.d THEN v.d[k] ELSE 0]]
    ELSE v

\* key in vocab (evaluated by the source in exact mode only)
contains(v, key) == key \in DOMAIN v.d

\* faulty variant: the sketch's length is the number of its cells that are not 0
len_nonzero_cells(v) ==
    IF v.kind = "dict" THEN Cardinality(DOMAIN v.d)
    ELSE Cardinality({rc \in (1..v.d) \X (0..(v.w - 1)) : v.count[rc[1]][rc[2]] # 0})

\* len(vocab): CMSketchCounter.__len__ returns 0
len(v) == IF v.kind = "dict" THEN Cardinality(DOMAIN v.d) ELSE 0

\* faulty variant: prune_vocab removing the counts smaller than min_reduce only
Survives_strict(count, min_reduce_) == ~(count < min_reduce_)

\* the keys prune_vocab keeps
Survives(count, min_reduce_) == ~(count <= min_reduce_)

\* prune_vocab(vocab, min_reduce) on a dict
prune_vocab(v, min_reduce_) ==
    LET keep == {w \in DOMAIN v.d : Survives(v.d[w], min_reduce_)}
    IN  [v EXCEPT !.d = [w \in keep |-> v.d[w]]]

\* ------------------------------------------------------------ learn_vocab
\* Phrases._get_counter_instance; hf is what the sketch's constructor draws
get_counter_instance(exact, hf) ==
    IF exact THEN DictWordCounter ELSE CMSketchCounter(DefaultWidth, DefaultDepth, hf)

\* the value of a variable that holds no counter
NoCounter == [kind |-> "none"]

RECURSIVE count_bigrams(_, _, _)
\* for bigram in zip(sentence, sentence[1:]): two update_counts per bigram
count_bigrams(v, s, i) ==
    IF i + 1 > Len(s) THEN v
    ELSE LET bigram == <<s[i], s[i + 1]>>
             v1 == update_counts(v, bigram[1], 1)
             v2 == update_counts(v1, join(delimiter, bigram), 1)
         IN  count_bigrams(v2, s, i + 1)

\* faulty variant: the last word of the sentence is not counted
count_sentence_no_last(v, sentence_) ==
    count_bigrams(v, [i \in 1..Len(sentence_) |-> any2utf8(sentence_[i])], 1)

\* the counting part of one iteration of learn_vocab's loop
count_sentence(v, sentence_) ==
    LET s == [i \in 1..Len(sentence_) |-> any2utf8(sentence_[i])]
        v1 == count_bigrams(v, s, 1)
    IN  IF s # <<>> THEN update_counts(v1, s[Len(s)], 1) ELSE v1

\* the pruning part of one iteration: if len(vocab) > max_vocab_size
prune_step(v, min_reduce_, max_size, exact) ==
    IF len(v) > max_size
    THEN [vocab |-> IF exact THEN prune_vocab(v, min_reduce_) ELSE v,
          min_reduce |-> min_reduce_ + 1,
          pruned |-> exact, before |-> v, m |-> min_reduce_]
    ELSE [vocab |-> v, min_reduce |-> min_reduce_,
          pruned |-> FALSE, before |-> v, m |-> min_reduce_]

\* one iteration of learn_vocab's loop over the sentences
learn_sentence(v, min_reduce_, sentence_, max_size, exact) ==
    prune_step(count_sentence(v, sentence_), min_reduce_, max_size, exact)

\* -------------------------------------------------------------- add_vocab
RECURSIVE merge_counts(_, _, _)
\* for word, count in iteritems(vocab): self.vocab.update_counts(word, count)
merge_counts(acc, other, keys) ==
    IF keys = {} THEN acc
    ELSE LET word == CHOOSE k \in keys : TRUE
         IN  merge_counts(update_counts(acc, word, other.d[word]), other, keys \ {word})

\* faulty variant: self.min_reduce = min_reduce
merged_min_reduce_overwrite(own, learnt) == learnt

\* the model's min_reduce once the learnt min_reduce is known
merged_min_reduce(own, learnt) == Max(own, learnt)

\* the exact branch of add_vocab, after learn_vocab returned (learnt_min_reduce, learnt)
merge_exact(v, own_min_reduce, learnt, learnt_min_reduce, max_size) ==
    LET mr == merged_min_reduce(own_min_reduce, learnt_min_reduce)
        merged == merge_counts(v, learnt, DOMAIN learnt.d)
    IN  IF len(merged) > max_size
        THEN [vocab |-> prune_vocab(merged, mr), min_reduce |-> mr + 1,
              pruned |-> TRUE, before |-> merged, m |-> mr]
        ELSE [vocab |-> merged, min_reduce |-> mr,
              pruned |-> FALSE, before |-> merged, m |-> mr]

RECURSIVE learn_all(_, _, _, _, _)
\* learn_vocab's loop over all the sentences, from (vocab, min_reduce) = (v, min_reduce_)
learn_all(v, min_reduce_, sents, max_size, exact) ==
    IF sents = <<>> THEN [vocab |-> v, min_reduce |-> min_reduce_]
    ELSE LET r == learn_sentence(v, min_reduce_, Head(sents), max_size, exact)
         IN  learn_all(r.vocab, r.min_reduce, Tail(sents), max_size, exact)

\* add_vocab(sents) in exact mode, as one step, on a model holding (v, own_min_reduce)
add_vocab_exact(v, own_min_reduce, sents, max_size) ==
    LET learnt == learn_all(DictWordCounter, 1, sents, max_size, TRUE)
    IN  merge_exact(v, own_min_reduce, learnt.vocab, learnt.min_reduce, max_size)

\* self.vocab.count += vocab.count
merge_sketch(v, learnt) ==
    [v EXCEPT !.count =
        [row \in 1..v.d |->
            [column \in 0..(v.w - 1) |->
                int32_add(v.count[row][column], learnt.count[row][column])]]]

\* ------------------------------------------------------------ __getitem__
\* faulty variant: the score without the factor len(self.vocab)
score_without_size(v, mc, th, pa, pb, pab) ==
    IF pa > 0 /\ pb > 0
    THEN [num |-> (pab - mc) * th, den |-> pa * pb]
    ELSE [num |-> 0, den |-> 1]

\* faulty variant: the score without `- self.min_count`
score_without_min_count(v, mc, th, pa, pb, pab) ==
    IF pa > 0 /\ pb > 0
    THEN [num |-> pab * th * len(v), den |-> pa * pb]
    ELSE [num |-> 0, den |-> 1]

\* the score of a bigram as the rational num / den:
\*   score = 0, or (pab - min_count) / pa / pb * threshold * len(vocab)
score(v, mc, th, pa, pb, pab) ==
    IF pa > 0 /\ pb > 0
    THEN [num |-> (pab - mc) * th * len(v), den |-> pa * pb]
    ELSE [num |-> 0, den |-> 1]

\* score > self.threshold (the denominator is positive)
score_above(sc, th) == sc.num > th * sc.den

\* faulty variant: the unigrams are not looked for in the vocab
unigrams_known_unchecked(v, exact, bigram) == TRUE

\* all(uni in self.vocab for uni in bigram), skipped in approximate mode
unigrams_known(v, exact, bigram) ==
    (~exact) \/ (\A i \in 1..2 : contains(v, bigram[i]))

\* faulty variant: the guard without `and not last_bigram`
scoring_guard_no_last(v, exact, bigram_word, last_bigram) ==
    (~exact) \/ contains(v, bigram_word)

\* the guard of the scoring block:
\*   ((not self.exact_count) or bigram_word in self.vocab) and not last_bigram
scoring_guard(v, exact, bigram_word, last_bigram) ==
    ((~exact) \/ contains(v, bigram_word)) /\ ~last_bigram

\* the bigram is scored and its score is above the threshold
bigram_accepted(v, exact, mc, th, bigram, last_bigram) ==
    /\ unigrams_known(v, exact, bigram)
    /\ scoring_guard(v, exact, join(delimiter, bigram), last_bigram)
    /\ score_above(score(v, mc, th, getitem(v, bigram[1]), getitem(v, bigram[2]),
                         getitem(v, join(delimiter, bigram))), th)

\* the state of the loop before its first iteration; merged, scored and emitted
\* record the positions (of the first token) the loop merged, scored, emitted;
\* read records the keys self.vocab[...] was evaluated for
LoopStart ==
    [new_s |-> <<>>, last_bigram |-> FALSE, merged |-> {}, scored |-> {}, emitted |-> {},
     read |-> {}]

\* one iteration of the loop over zip(s, s[1:]), at the bigram (s[i], s[i+1])
getitem_step(acc, v, exact, mc, th, s, i) ==
    LET bigram == <<s[i], s[i + 1]>>
        scored == /\ unigrams_known(v, exact, bigram)
                  /\ scoring_guard(v, exact, join(delimiter, bigram), acc.last_bigram)
        now == [acc EXCEPT !.scored = IF scored THEN @ \cup {i} ELSE @,
                           !.read = IF scored
                                    THEN @ \cup {bigram[1], bigram[2], join(delimiter, bigram)}
                                    ELSE @]
    IN  IF bigram_accepted(v, exact, mc, th, bigram, acc.last_bigram)
        THEN [now EXCEPT !.new_s = Append(@, join(delimiter, bigram)),
                         !.last_bigram = TRUE,
                         !.merged = @ \cup {i}]
        ELSE [now EXCEPT !.new_s = IF ~acc.last_bigram THEN Append(@, s[i]) ELSE @,
                         !.emitted = IF ~acc.last_bigram THEN @ \cup {i} ELSE @,
                         !.last_bigram = FALSE]

RECURSIVE getitem_loop(_, _, _, _, _, _, _)
getitem_loop(acc, v, exact, mc, th, s, i) ==
    IF i + 1 > Len(s) THEN acc
    ELSE getitem_loop(getitem_step(acc, v, exact, mc, th, s, i), v, exact, mc, th, s, i + 1)

\* faulty variant: the last token's test without `and not last_bigram`
last_token_emitted_if_known(v, exact, last_token, last_bigram) ==
    (~exact) \/ contains(v, last_token)

\* the last token is appended:
\*   (not self.exact_count) or (last_token in self.vocab and not last_bigram)
last_token_emitted(v, exact, last_token, last_bigram) ==
    (~exact) \/ (contains(v, last_token) /\ ~last_bigram)

\* `if s:` after the loop
getitem_last(acc, v, exact, s) ==
    IF s # <<>> /\ last_token_emitted(v, exact, s[Len(s)], acc.last_bigram)
    THEN [acc EXCEPT !.new_s = Append(@, s[Len(s)]), !.emitted = @ \cup {Len(s)}]
    ELSE acc

\* Phrases.__getitem__ on a single sentence: the loop's final state, with new_s
\* converted back to unicode
phrases_getitem(v, exact, mc, th, sentence_) ==
    LET s == [i \in 1..Len(sentence_) |-> any2utf8(sentence_[i])]
        acc == getitem_last(getitem_loop(LoopStart, v, exact, mc, th, s, 1), v, exact, s)
    IN  [acc EXCEPT !.new_s = [i \in 1..Len(acc.new_s) |-> to_unicode(acc.new_s[i])]]

\* ---------------------------------------------------------------- history
\* hist.last_op names the operation that acted last; lv_prunes and prunes count
\* the prune_vocab calls of the current learn_vocab and of the whole run;
\* prune_before, prune_m, prune_after are the last prune_vocab call's argument
\* and result; added and calls belong to the counter-level specification; args
\* are the arguments of the constructor call, where a specification makes one.
NoHistory ==
    [last_op |-> "init", lv_prunes |-> 0, prunes |-> 0,
     prune_before |-> NoCounter, prune_m |-> 0, prune_after |-> NoCounter,
     added |-> [k \in AllKeys |-> 0], calls |-> 0, args |-> [kind |-> "none"]]

\* hist after a step r that may have called prune_vocab
Recorded(h, op, r) ==
    IF r.pruned
    THEN [h EXCEPT !.last_op = op, !.prunes = @ + 1,
                   !.prune_before = r.before, !.prune_m = r.m, !.prune_after = r.vocab]
    ELSE [h EXCEPT !.last_op = op]

TotalSentencesFrom[i \in Nat] ==
    IF i > Len(passes) THEN 0 ELSE Len(passes[i]) + TotalSentencesFrom[i + 1]
TotalSentences == TotalSentencesFrom[1]

\* ------------------------------------------------------------------ model
\* the max_vocab_size values a model is constructed with
VocabSizes == {2, DefaultMaxVocabSize}

\* what the constructor of a counter draws: nothing (dict), or d hash functions
Draws(exact) == IF exact THEN {<<>>} ELSE HashFamilies(DefaultDepth)

\* Phrases.__init__ with sentences=None
PhrasesInit(exact, mc, th, max_size, hf) ==
    /\ exact_count = exact
    /\ min_count = mc
    /\ threshold = th
    /\ max_vocab_size = max_size
    /\ vocab = get_counter_instance(exact, hf)
    /\ min_reduce = 1
    /\ pc = "idle"
    /\ lv_vocab = NoCounter
    /\ lv_min_reduce = 1
    /\ sentence = <<>>
    /\ new_s = <<>>
    /\ trace = LoopStart
    /\ passes = <<>>
    /\ hist = NoHistory

\* faulty variant: learn_vocab counting into the model's accumulated counter,
\* from the model's min_reduce
learn_vocab_start_accumulated(exact, hf) ==
    [vocab |-> vocab, min_reduce |-> min_reduce]

\* learn_vocab's locals before its loop:
\*   vocab = Phrases._get_counter_instance(...); min_reduce = 1
learn_vocab_start(exact, hf) ==
    [vocab |-> get_counter_instance(exact, hf), min_reduce |-> 1]

\* add_vocab enters learn_vocab
AddVocabStart(hf) ==
    /\ pc = "idle"
    /\ Len(passes) < MaxPasses
    /\ pc' = "learning"
    /\ lv_vocab' = learn_vocab_start(exact_count, hf).vocab
    /\ lv_min_reduce' = learn_vocab_start(exact_count, hf).min_reduce
    /\ passes' = Append(passes, <<>>)
    /\ hist' = [hist EXCEPT !.last_op = "start", !.lv_prunes = 0]
    /\ sentence' = <<>>
    /\ new_s' = <<>>
    /\ trace' = LoopStart
    /\ UNCHANGED <<config, vocab, min_reduce>>

\* learn_vocab pulls the sentence s from the input and runs one iteration of its loop
LearnSentence(s) ==
    /\ pc = "learning"
    /\ LET r == learn_sentence(lv_vocab, lv_min_reduce, s, max_vocab_size, exact_count)
       IN  /\ lv_vocab' = r.vocab
           /\ lv_min_reduce' = r.min_reduce
           /\ hist' = [Recorded(hist, "learn", r) EXCEPT
                          !.lv_prunes = IF r.pruned THEN @ + 1 ELSE @]
    /\ passes' = [passes EXCEPT ![Len(passes)] = Append(@, s)]
    /\ UNCHANGED <<config, vocab, min_reduce, pc, sentence, new_s, trace>>

\* the input is exhausted: learn_vocab returns and add_vocab merges
AddVocabMerge ==
    /\ pc = "learning"
    /\ IF exact_count
       THEN LET r == merge_exact(vocab, min_reduce, lv_vocab, lv_min_reduce, max_vocab_size)
            IN  /\ vocab' = r.vocab
                /\ min_reduce' = r.min_reduce
                /\ hist' = Recorded(hist, "merge", r)
       ELSE /\ vocab' = merge_sketch(vocab, lv_vocab)
            /\ min_reduce' = min_reduce
            /\ hist' = [hist EXCEPT !.last_op = "merge"]
    /\ pc' = "idle"
    /\ lv_vocab' = NoCounter
    /\ UNCHANGED <<config, lv_min_reduce, sentence, new_s, trace, passes>>

\* Phrases.__getitem__(s) on a single sentence; the counter is left as the
\* evaluations of self.vocab[...] leave it. Only the first of a run of calls is
\* explored.
GetItem(s) ==
    /\ pc = "idle"
    /\ hist.last_op # "getitem"
    /\ LET r == phrases_getitem(vocab, exact_count, min_count, threshold, s)
       IN  /\ new_s' = r.new_s
           /\ trace' = [r EXCEPT !.new_s = <<>>]
           /\ vocab' = after_getitems(vocab, r.read)
    /\ sentence' = s
    /\ hist' = [hist EXCEPT !.last_op = "getitem"]
    /\ UNCHANGED <<config, min_reduce, pc, lv_vocab, lv_min_reduce, passes>>

\* ---------------------------------------------- exact mode: specification
Init ==
    \E mc \in 1..MaxMinCount, max_size \in VocabSizes :
        PhrasesInit(TRUE, mc, DefaultThreshold, max_size, <<>>)

Next ==
    \/ \E hf \in Draws(exact_count) : AddVocabStart(hf)
    \/ (TotalSentences < MaxSentences /\ \E s \in Sentences : LearnSentence(s))
    \/ AddVocabMerge
    \/ \E s \in Sentences : GetItem(s)

Spec == Init /\ [][Next]_vars

\* ---------------------------------------- approximate mode: specification
\* the max_vocab_size values an approximate model is constructed with (the
\* constructor accepts any integer)
ApproxVocabSizes == {-1} \cup VocabSizes

InitApprox ==
    \E mc \in 1..MaxMinCount, max_size \in ApproxVocabSizes, hf \in Draws(FALSE) :
        PhrasesInit(FALSE, mc, DefaultThreshold, max_size, hf)

NextApprox ==
    \/ \E hf \in Draws(exact_count) : AddVocabStart(hf)
    \/ (TotalSentences < MaxSentences /\ \E s \in FewSentences : LearnSentence(s))
    \/ AddVocabMerge
    \/ \E s \in FewSentences : GetItem(s)

SpecApprox == InitApprox /\ [][NextApprox]_vars

\* ------------------------------------------- the counters: specification
\* A freshly constructed counter of either kind, held in vocab (exact_count tells
\* which kind), driven directly through update_counts and prune_vocab.
CounterKeys == FewTokens \cup {"key"}

InitCounter ==
    /\ exact_count \in BOOLEAN
    /\ vocab \in (IF exact_count THEN {DictWordCounter}
                  ELSE {CMSketchCounter(W, D, hf) : hf \in HashFamilies(D)})
    /\ min_count = 1
    /\ threshold = DefaultThreshold
    /\ max_vocab_size = DefaultMaxVocabSize
    /\ min_reduce = 1
    /\ pc = "idle"
    /\ lv_vocab = NoCounter
    /\ lv_min_reduce = 1
    /\ sentence = <<>>
    /\ new_s = <<>>
    /\ trace = LoopStart
    /\ passes = <<>>
    /\ hist = NoHistory

\* vocab.update_counts(key, c)
UpdateCounts(key, c) ==
    /\ hist.calls < MaxCalls
    /\ vocab' = update_counts(vocab, key, c)
    /\ hist' = [hist EXCEPT !.last_op = "update_counts",
                            !.added[key] = @ + c,
                            !.calls = @ + 1]
    /\ UNCHANGED <<config, min_reduce, pc, lv_vocab, lv_min_reduce,
                   sentence, new_s, trace, passes>>

\* prune_vocab(vocab, m) on the dict
PruneVocab(m) ==
    /\ hist.calls < MaxCalls
    /\ exact_count
    /\ vocab' = prune_vocab(vocab, m)
    /\ hist' = [Recorded(hist, "prune_vocab",
                         [pruned |-> TRUE, before |-> vocab, m |-> m, vocab |-> vocab'])
                EXCEPT !.calls = @ + 1]
    /\ UNCHANGED <<config, min_reduce, pc, lv_vocab, lv_min_reduce,
                   sentence, new_s, trace, passes>>

NextCounter ==
    \/ \E key \in CounterKeys, c \in 1..MaxIncrement : UpdateCounts(key, c)
    \/ \E m \in 0..(MaxIncrement + 1) : PruneVocab(m)

SpecCounter == InitCounter /\ [][NextCounter]_vars

\* ------------------------------------- the concrete scenario: specification
\* min_count = 1, exact mode, delimiter "_", any threshold; the corpus is three
\* copies of the sentence, streamed into add_vocab; the sentence is transformed.
ScenarioSentence ==
    <<to_unicode("new"), to_unicode("york"), to_unicode("is"), to_unicode("big")>>

ScenarioCorpus == <<ScenarioSentence, ScenarioSentence, ScenarioSentence>>

InitScenario ==
    \E th \in 1..MaxThreshold :
        PhrasesInit(TRUE, 1, th, DefaultMaxVocabSize, <<>>)

NextScenario ==
    \/ \E hf \in Draws(exact_count) : AddVocabStart(hf)
    \/ (/\ TotalSentences < Len(ScenarioCorpus)
        /\ LearnSentence(ScenarioCorpus[TotalSentences + 1]))
    \/ AddVocabMerge
    \/ GetItem(ScenarioSentence)

SpecScenario == InitScenario /\ [][NextScenario]_vars

\* ------------------------------------- the sketch's cells: specification
\* Two sketches as add_vocab holds them in approximate mode: the accumulated one
\* (vocab) and the one learn_vocab filled (lv_vocab), both of the default
\* dimensions, each with the hash functions its constructor drew. Each is driven
\* through update_counts, with increments 1 and LargeIncrement, and the second is
\* added into the first as add_vocab does.
CellIncrements == {1, LargeIncrement}

InitCells ==
    /\ exact_count = FALSE
    /\ vocab \in {CMSketchCounter(DefaultWidth, DefaultDepth, hf) : hf \in Draws(FALSE)}
    /\ lv_vocab \in {CMSketchCounter(DefaultWidth, DefaultDepth, hf) : hf \in Draws(FALSE)}
    /\ min_count = 1
    /\ threshold = DefaultThreshold
    /\ max_vocab_size = DefaultMaxVocabSize
    /\ min_reduce = 1
    /\ pc = "idle"
    /\ lv_min_reduce = 1
    /\ sentence = <<>>
    /\ new_s = <<>>
    /\ trace = LoopStart
    /\ passes = <<>>
    /\ hist = NoHistory

\* self.vocab.update_counts(key, c) on the accumulated sketch
UpdateAccumulated(key, c) ==
    /\ hist.calls < MaxCalls
    /\ vocab' = update_counts(vocab, key, c)
    /\ hist' = [hist EXCEPT !.last_op = "update_counts", !.calls = @ + 1]
    /\ UNCHANGED <<config, min_reduce, pc, lv_vocab, lv_min_reduce,
                   sentence, new_s, trace, passes>>

\* vocab.update_counts(key, c) on the sketch being learnt
UpdateLearnt(key, c) ==
    /\ hist.calls < MaxCalls
    /\ lv_vocab' = update_counts(lv_vocab, key, c)
    /\ hist' = [hist EXCEPT !.last_op = "update_counts", !.calls = @ + 1]
    /\ UNCHANGED <<config, min_reduce, pc, vocab, lv_min_reduce,
                   sentence, new_s, trace, passes>>

\* self.vocab.count += vocab.count
MergeTables ==
    /\ hist.calls < MaxCalls
    /\ vocab' = merge_sketch(vocab, lv_vocab)
    /\ hist' = [hist EXCEPT !.last_op = "merge", !.calls = @ + 1]
    /\ UNCHANGED <<config, min_reduce, pc, lv_vocab, lv_min_reduce,
                   sentence, new_s, trace, passes>>

NextCells ==
    \/ \E key \in CounterKeys, c \in CellIncrements : UpdateAccumulated(key, c)
    \/ \E key \in CounterKeys, c \in CellIncrements : UpdateLearnt(key, c)
    \/ MergeTables

SpecCells == InitCells /\ [][NextCells]_vars

\* --------------------------------------------- __getitem__: specification
\* Phrases.__getitem__ applied once to a sentence, on a model of either mode whose
\* counter is in any state update_counts, prune_vocab and the table addition can
\* leave it in: a dict holding positive counts for any set of keys, or a sketch
\* with any cells. min_count and threshold are positive.
TransformTokens == {to_unicode(t) : t \in FewTokens}
TransformSentences == SeqsUpTo(TransformTokens, MaxLen)
TransformKeys ==
    FewTokens \cup {join(delimiter, <<a, b>>) : a \in FewTokens, b \in FewTokens}

\* the dicts over the keys, with counts 1..MaxCount
Dicts ==
    {[kind |-> "dict", d |-> d] :
        d \in UNION {[K -> 1..MaxCount] : K \in SUBSET TransformKeys}}

\* the sketches of the default dimensions, with cells 0..MaxCount
Sketches ==
    {[CMSketchCounter(DefaultWidth, DefaultDepth, hf) EXCEPT !.count = cells] :
        hf \in Draws(FALSE),
        cells \in [1..DefaultDepth -> [0..(DefaultWidth - 1) -> 0..MaxCount]]}

Thresholds == {1, DefaultThreshold}

InitTransform ==
    /\ exact_count \in BOOLEAN
    /\ vocab \in (IF exact_count THEN Dicts ELSE Sketches)
    /\ min_count \in 1..MaxMinCount
    /\ threshold \in Thresholds
    /\ max_vocab_size = DefaultMaxVocabSize
    /\ min_reduce \in 1..2
    /\ pc = "idle"
    /\ lv_vocab = NoCounter
    /\ lv_min_reduce = 1
    /\ sentence = <<>>
    /\ new_s = <<>>
    /\ trace = LoopStart
    /\ passes = <<>>
    /\ hist = NoHistory

NextTransform == \E s \in TransformSentences : GetItem(s)

SpecTransform == InitTransform /\ [][NextTransform]_vars

\* -------------------------------------------- construction: specification
\* One constructor call, Phrases(...) or CMSketchCounter(delta, epsilon), with
\* arguments of either sign, and what the constructed object does next. pc is
\* "new" before the call, "error" after a ValueError, "counter" for a sketch
\* constructed on its own. delta and epsilon are rationals [num, den].
MinCountArgs == (-1)..MaxMinCount
ThresholdArgs == {-1, 0, 1, DefaultThreshold}
Rationals == {[num |-> n, den |-> 2] : n \in (-1)..3} \cup {[num |-> 1, den |-> 4]}

\* faulty variant: only min_count is validated
phrases_config_error_min_count_only(mc, th) == mc <= 0

\* Phrases.__init__ raises ValueError
phrases_config_error(mc, th) == mc <= 0 \/ th <= 0

\* x <= 0 or x >= 1 for the rational x
outside_unit_interval(x) == x.num <= 0 \/ x.num >= x.den

\* CMSketchCounter.__init__ raises ValueError
sketch_config_error(delta, epsilon) ==
    outside_unit_interval(delta) \/ outside_unit_interval(epsilon)

\* int(np.ceil(2 / epsilon))
sketch_width(epsilon) == ((2 * epsilon.den) + epsilon.num - 1) \div epsilon.num

\* int(np.ceil(np.log(1 / delta))) for 1 < 1/delta <= 20: the least d with
\* e^d >= 1/delta (e = 2.718..., e^2 = 7.389..., e^3 = 20.08...)
sketch_depth(delta) ==
    IF 1000 * delta.den <= 2718 * delta.num THEN 1
    ELSE IF 1000 * delta.den <= 7389 * delta.num THEN 2 ELSE 3

NoArgs ==
    [kind |-> "none", sentences |-> FALSE, min_count |-> 0, threshold |-> 0,
     delta |-> [num |-> 0, den |-> 1], epsilon |-> [num |-> 0, den |-> 1]]

InitConstruct ==
    /\ exact_count = FALSE
    /\ min_count = 0
    /\ threshold = 0
    /\ max_vocab_size = 0
    /\ vocab = NoCounter
    /\ min_reduce = 0
    /\ pc = "new"
    /\ lv_vocab = NoCounter
    /\ lv_min_reduce = 0
    /\ sentence = <<>>
    /\ new_s = <<>>
    /\ trace = LoopStart
    /\ passes = <<>>
    /\ hist = [NoHistory EXCEPT !.args = NoArgs]

\* Phrases(sentences, min_count=mc, threshold=th, max_vocab_size=max_size,
\* exact_count=exact); with_sentences tells whether sentences is not None, hf and
\* hf2 are what the constructors of the sketches draw. With sentences the call goes
\* on into add_vocab and learn_vocab, up to the first pull from the input.
NewPhrases(with_sentences, mc, th, max_size, exact, hf, hf2) ==
    /\ pc = "new"
    /\ LET args == [NoArgs EXCEPT !.kind = "Phrases", !.sentences = with_sentences,
                                  !.min_count = mc, !.threshold = th]
       IN  IF phrases_config_error(mc, th)
           THEN /\ pc' = "error"
                /\ hist' = [hist EXCEPT !.last_op = "raise", !.args = args]
                /\ UNCHANGED <<config, vocab, min_reduce, lv_vocab, lv_min_reduce,
                               sentence, new_s, trace, passes>>
           ELSE /\ min_count' = mc
                /\ threshold' = th
                /\ max_vocab_size' = max_size
                /\ exact_count' = exact
                /\ vocab' = get_counter_instance(exact, hf)
                /\ min_reduce' = 1
                /\ IF with_sentences
                   THEN /\ pc' = "learning"
                        /\ lv_vocab' = get_counter_instance(exact, hf2)
                        /\ passes' = <<<<>>>>
                        /\ hist' = [hist EXCEPT !.last_op = "start", !.args = args]
                   ELSE /\ pc' = "idle"
                        /\ lv_vocab' = NoCounter
                        /\ passes' = <<>>
                        /\ hist' = [hist EXCEPT !.last_op = "init", !.args = args]
                /\ lv_min_reduce' = 1
                /\ UNCHANGED <<sentence, new_s, trace>>

\* CMSketchCounter(delta, epsilon), drawing its hash functions
NewSketch(delta, epsilon) ==
    /\ pc = "new"
    /\ LET args == [NoArgs EXCEPT !.kind = "CMSketchCounter",
                                  !.delta = delta, !.epsilon = epsilon]
       IN  IF sketch_config_error(delta, epsilon)
           THEN /\ pc' = "error"
                /\ hist' = [hist EXCEPT !.last_op = "raise", !.args = args]
                /\ UNCHANGED vocab
           ELSE /\ pc' = "counter"
                /\ hist' = [hist EXCEPT !.last_op = "init", !.args = args]
                /\ \E hf \in HashFamilies(sketch_depth(delta)) :
                      vocab' = CMSketchCounter(sketch_width(epsilon), sketch_depth(delta), hf)
    /\ UNCHANGED <<config, min_reduce, lv_vocab, lv_min_reduce,
                   sentence, new_s, trace, passes>>

NextConstruct ==
    \/ \E with_sentences \in BOOLEAN, mc \in MinCountArgs, th \in ThresholdArgs,
          max_size \in VocabSizes, exact \in BOOLEAN :
          \E hf \in Draws(exact), hf2 \in Draws(exact) :
             NewPhrases(with_sentences, mc, th, max_size, exact, hf, hf2)
    \/ \E delta \in Rationals, epsilon \in Rationals : NewSketch(delta, epsilon)
    \/ (pc = "counter" /\ \E key \in CounterKeys : UpdateCounts(key, 1))
    \/ \E hf \in Draws(exact_count) : AddVocabStart(hf)
    \/ (TotalSentences < 1 /\ \E s \in FewSentences : LearnSentence(s))
    \/ AddVocabMerge
    \/ \E s \in FewSentences : GetItem(s)

SpecConstruct == InitConstruct /\ [][NextConstruct]_vars

\* ------------------------------------------------- what the claims refer to
RECURSIVE Flatten(_)
\* the sentences of all passes, in the order they were consumed
Flatten(ps) == IF ps = <<>> THEN <<>> ELSE Head(ps) \o Flatten(Tail(ps))

RECURSIVE SumSeq(_)
SumSeq(ns) == IF ns = <<>> THEN 0 ELSE Head(ns) + SumSeq(Tail(ns))

\* the number of positions of the sentences where token t stands
TokenOccurrences(t, sents) ==
    SumSeq([j \in 1..Len(sents) |->
              Cardinality({i \in 1..Len(sents[j]) : any2utf8(sents[j][i]) = t})])

\* the number of positions of the sentences where a is immediately followed by b
PairOccurrences(a, b, sents) ==
    SumSeq([j \in 1..Len(sents) |->
              Cardinality({i \in 1..(Len(sents[j]) - 1) :
                              /\ any2utf8(sents[j][i]) = a
                              /\ any2utf8(sents[j][i + 1]) = b})])

\* the count a dict holds for a key, 0 for a key it does not hold
CountOf(v, key) == IF key \in DOMAIN v.d THEN v.d[key] ELSE 0

\* the dict holds exactly the token and pair counts of the sentences
CountsExactly(v, toks, sents) ==
    /\ \A t \in toks : CountOf(v, t) = TokenOccurrences(t, sents)
    /\ \A a \in toks, b \in toks :
          CountOf(v, join(delimiter, <<a, b>>)) = PairOccurrences(a, b, sents)
    /\ DOMAIN v.d \subseteq toks \cup {join(delimiter, <<a, b>>) : a \in toks, b \in toks}
    /\ \A k \in DOMAIN v.d : v.d[k] > 0

\* the utf8 bigram of the sentence at position i
BigramAt(sentence_, i) == <<any2utf8(sentence_[i]), any2utf8(sentence_[i + 1])>>

\* the pair at position i of the sentence qualifies for merging on its own account
Qualifies(sentence_, i) ==
    bigram_accepted(vocab, exact_count, min_count, threshold, BigramAt(sentence_, i), FALSE)

RECURSIVE Rebuild(_, _, _, _)
\* the output the recorded merges and emissions stand for, from position i on
Rebuild(sentence_, merged, emitted, i) ==
    IF i > Len(sentence_) THEN <<>>
    ELSE (IF i \in merged
          THEN <<to_unicode(join(delimiter, BigramAt(sentence_, i)))>>
          ELSE <<>>)
         \o (IF i \in emitted THEN <<sentence_[i]>> ELSE <<>>)
         \o Rebuild(sentence_, merged, emitted, i + 1)

\* the input positions the output token made at position i was made from
Consumed(i) ==
    (IF i \in trace.merged THEN {i, i + 1} ELSE {})
    \cup (IF i \in trace.emitted THEN {i} ELSE {})

\* ------------------------------------------------------------------ claims
\* C2: in Phrases.__getitem__ on one sentence every input position goes into at
\* most one output token: when the pair at (i, i+1) is merged, the pair at
\* (i+1, i+2) is neither scored nor merged, and neither token i nor token i+1 is
\* emitted standalone; the output is exactly the recorded merges and emissions.
C2_NonOverlap ==
    /\ new_s = Rebuild(sentence, trace.merged, trace.emitted, 1)
    /\ \A i \in trace.merged :
          /\ (i + 1) \notin trace.merged
          /\ (i + 1) \notin trace.scored
          /\ (i + 1) \notin trace.emitted
          /\ i \notin trace.emitted
    /\ \A i \in 1..Len(sentence), j \in 1..Len(sentence) :
          i # j => Consumed(i) \cap Consumed(j) = {}

\* a merge at (i, i+1) was followed by a pair (i+1, i+2) that would have been
\* merged had it been scored
C2_Witness ==
    /\ hist.last_op = "getitem"
    /\ \E i \in trace.merged :
          /\ i + 2 <= Len(sentence)
          /\ Qualifies(sentence, i + 1)

\* C3: a sentence in which no adjacent pair qualifies for merging is returned
\* unchanged by Phrases.__getitem__.
C3_Unchanged ==
    (/\ hist.last_op = "getitem"
     /\ \A i \in 1..(Len(sentence) - 1) : ~Qualifies(sentence, i))
    => new_s = sentence

C6_MinReduceMonotone ==
    [][/\ min_reduce' >= min_reduce
       /\ (pc = "idle" /\ pc' = "learning") => (lv_min_reduce' = 1 /\ hist'.lv_prunes = 0)
       /\ (pc = "learning" /\ pc' = "learning") =>
             /\ hist'.lv_prunes \in {hist.lv_prunes, hist.lv_prunes + 1}
             /\ lv_min_reduce' = lv_min_reduce + (hist'.lv_prunes - hist.lv_prunes)
             /\ lv_min_reduce' = 1 + hist'.lv_prunes
       /\ (pc = "learning" /\ pc' = "idle") =>
             /\ lv_min_reduce' = lv_min_reduce
             /\ min_reduce' >= lv_min_reduce]_vars

\* a second add_vocab whose learn_vocab pruned returned to a model whose
\* min_reduce was already larger than the value learn_vocab returned
C6_Witness ==
    /\ hist.last_op = "merge"
    /\ Len(passes) = 2
    /\ hist.lv_prunes >= 1
    /\ min_reduce > lv_min_reduce

\* C7: in exact mode, when prune_vocab was never called, the accumulated counter
\* after add_vocab(A) and add_vocab(B) is the counter of a single add_vocab over
\* the sentences of A followed by those of B on a fresh model, and every key's
\* count is the sum of the amounts added for it.
C7_MergeIsConcatenation ==
    (hist.last_op = "merge" /\ hist.prunes = 0) =>
        /\ vocab = add_vocab_exact(DictWordCounter, 1, Flatten(passes), max_vocab_size).vocab
        /\ CountsExactly(vocab, Tokens, Flatten(passes))

\* two add_vocab calls, each with sentences, both counting a common token
C7_Witness ==
    /\ hist.last_op = "merge"
    /\ hist.prunes = 0
    /\ Len(passes) = 2
    /\ \E t \in Tokens :
          /\ TokenOccurrences(t, passes[1]) > 0
          /\ TokenOccurrences(t, passes[2]) > 0

\* C8: in exact mode, while learn_vocab has not pruned, its counter holds for
\* every token its number of occurrences in the sentences consumed (the last
\* token of a sentence included) and for every joined key a_b the number of
\* positions where a is immediately followed by b; an empty sentence adds nothing.
C8_LearnCounts ==
    (pc = "learning" /\ exact_count /\ hist.lv_prunes = 0) =>
        CountsExactly(lv_vocab, Tokens, passes[Len(passes)])

\* learn_vocab consumed a sentence with a repeated pair and then an empty sentence
C8_Witness ==
    /\ pc = "learning"
    /\ exact_count
    /\ hist.lv_prunes = 0
    /\ Len(passes[Len(passes)]) = 2
    /\ passes[Len(passes)][2] = <<>>
    /\ \E a \in Tokens : PairOccurrences(a, a, passes[Len(passes)]) = 2

\* C9: in exact mode the counter holds at most max_vocab_size keys after each
\* sentence learn_vocab processed and after add_vocab returned.
C9_MemoryCeiling ==
    exact_count =>
        /\ hist.last_op = "learn" => len(lv_vocab) <= max_vocab_size
        /\ hist.last_op = "merge" => len(vocab) <= max_vocab_size

\* the true count of a key of the approximate-mode inputs over the sentences
TrueCount(key, sents) ==
    IF key \in FewTokens THEN TokenOccurrences(key, sents)
    ELSE LET p == CHOOSE q \in FewTokens \X FewTokens : join(delimiter, q) = key
         IN  PairOccurrences(p[1], p[2], sents)

FewKeys == FewTokens \cup {join(delimiter, q) : q \in FewTokens \X FewTokens}

\* C1: a CMSketchCounter never underestimates: after any update_counts calls the
\* value read for a key is at least the total amount added for it.
C1_NeverUnderestimates ==
    (~exact_count) => \A k \in CounterKeys : CMSGet(vocab, k) >= hist.added[k]

C10_SketchMergeValid ==
    (~exact_count) =>
        /\ pc = "learning" =>
              /\ lv_vocab.w = vocab.w
              /\ lv_vocab.d = vocab.d
              /\ \A k \in FewKeys, row \in 1..vocab.d :
                    Column(lv_vocab, row, k) = Column(vocab, row, k)
        /\ hist.last_op = "merge" =>
              \A k \in FewKeys : CMSGet(vocab, k) >= TrueCount(k, Flatten(passes))

\* C11: the value read for any key is never negative, in the sketch (int32 cells,
\* added cell by cell on merge) after any update_counts calls and merges.
C11_NeverNegative ==
    \A k \in CounterKeys : CMSGet(vocab, k) >= 0 /\ CMSGet(lv_vocab, k) >= 0

\* C11, the exact counter: after any update_counts calls and merges every count
\* the dict holds is positive.
C11_ExactNeverNegative ==
    (vocab.kind = "dict") => \A k \in DOMAIN vocab.d : vocab.d[k] >= 0

\* C12: Phrases.__getitem__ never merges a pair whose joined-bigram count is lower
\* than or equal to min_count, and never merges a pair with count(a) <= 0 or
\* count(b) <= 0; a pair with such a count that is scored has the score 0.
C12_MinCountFilter ==
    /\ \A i \in trace.merged :
          LET bigram == BigramAt(sentence, i)
          IN  /\ getitem(vocab, join(delimiter, bigram)) > min_count
              /\ getitem(vocab, bigram[1]) > 0
              /\ getitem(vocab, bigram[2]) > 0
    /\ \A i \in trace.scored :
          LET bigram == BigramAt(sentence, i)
              pa == getitem(vocab, bigram[1])
              pb == getitem(vocab, bigram[2])
              sc == score(vocab, min_count, threshold, pa, pb,
                          getitem(vocab, join(delimiter, bigram)))
          IN  /\ sc.den > 0
              /\ (pa <= 0 \/ pb <= 0) => (sc.num = 0 /\ i \notin trace.merged)

\* a pair was merged after a pair whose bigram count does not exceed min_count
\* was scored and left alone
C12_Witness ==
    /\ exact_count
    /\ \E i \in trace.merged, j \in trace.scored \ trace.merged :
          getitem(vocab, join(delimiter, BigramAt(sentence, j))) <= min_count

\* a pair with count(a) = 0 was scored (approximate mode) and not merged
C12_WitnessZero ==
    /\ ~exact_count
    /\ \E i \in trace.scored \ trace.merged :
          getitem(vocab, BigramAt(sentence, i)[1]) = 0

\* C13: a constructor call with min_count <= 0 or threshold <= 0 (Phrases), or
\* with delta or epsilon outside (0, 1) (CMSketchCounter), ends in the error,
\* with no counter created and no sentence pulled from the input; any other
\* call constructs the object.
C13_FailFast ==
    LET a == hist.args
        invalid == \/ a.kind = "Phrases" /\ (a.min_count <= 0 \/ a.threshold <= 0)
                   \/ /\ a.kind = "CMSketchCounter"
                      /\ \/ a.delta.num <= 0 \/ a.delta.num >= a.delta.den
                         \/ a.epsilon.num <= 0 \/ a.epsilon.num >= a.epsilon.den
    IN  /\ invalid => /\ pc = "error"
                      /\ vocab = NoCounter
                      /\ lv_vocab = NoCounter
                      /\ passes = <<>>
        /\ (a.kind # "none" /\ ~invalid) => (pc # "error" /\ vocab # NoCounter)

\* Phrases was called with sentences, a valid min_count and a threshold <= 0,
\* and raised
C13_Witness ==
    /\ pc = "error"
    /\ hist.args.kind = "Phrases"
    /\ hist.args.sentences
    /\ hist.args.min_count > 0
    /\ hist.args.threshold <= 0

\* CMSketchCounter was called with a valid delta and epsilon = 1, and raised
C13_WitnessSketch ==
    /\ pc = "error"
    /\ hist.args.kind = "CMSketchCounter"
    /\ hist.args.delta.num = 1
    /\ hist.args.epsilon.num = hist.args.epsilon.den

\* the table after the conservative update of key k by c as it is described:
\* chat is the estimate of k itself, every row's cell of k becomes
\* max(cell, c + chat), every other cell is kept
ConservativeUpdate(v, k, c) ==
    LET chat == CMSGet(v, k)
    IN  [row \in 1..v.d |->
            [column \in 0..(v.w - 1) |->
                IF column = Column(v, row, k)
                THEN Max(v.count[row][column], c + chat)
                ELSE v.count[row][column]]]

\* C14: CMSketchCounter.update_counts(k, c) reads the estimate chat of the key k
\* being incremented and sets, in every row, the cell addressed by k to
\* max(old cell, c + chat); the other cells are unchanged.
C14_ConservativeUpdate ==
    [][\A k \in CounterKeys, c \in 1..MaxIncrement :
          (/\ ~exact_count
           /\ hist'.last_op = "update_counts"
           /\ hist'.calls = hist.calls + 1
           /\ hist'.added = [hist.added EXCEPT ![k] = @ + c])
          => vocab'.count = ConservativeUpdate(vocab, k, c)]_vars

C16_ReadOnly ==
    [][(hist'.last_op = "getitem" /\ hist.last_op # "getitem") =>
          /\ vocab' = vocab
          /\ min_reduce' = min_reduce
          /\ config' = config
          /\ trace'.read \subseteq
                (IF exact_count THEN DOMAIN vocab.d ELSE TransformKeys)]_vars

\* __getitem__ ran in exact mode on a sentence with a token the dict does not
\* hold and with a pair of known tokens whose joined bigram it does not hold
C16_Witness ==
    /\ hist.last_op = "getitem"
    /\ exact_count
    /\ \E i \in 1..Len(sentence) : ~contains(vocab, any2utf8(sentence[i]))
    /\ \E i \in 1..(Len(sentence) - 1) :
          /\ unigrams_known(vocab, exact_count, BigramAt(sentence, i))
          /\ ~contains(vocab, join(delimiter, BigramAt(sentence, i)))

\* C17: in approximate mode, for every max_vocab_size, learn_vocab never prunes
\* and its min_reduce is 1, and the model's min_reduce stays 1.
C17_ApproxMinReduce ==
    (~exact_count) => (hist.prunes = 0 /\ lv_min_reduce = 1 /\ min_reduce = 1)

\* C17 without learn_vocab's own min_reduce: in approximate mode prune_vocab is
\* never called and the model's min_reduce stays 1.
C17_ApproxNeverPrunes ==
    (~exact_count) => (hist.prunes = 0 /\ min_reduce = 1)

\* C17 for a max_vocab_size that is not negative.
C17_ApproxMinReduceNonNegative ==
    (~exact_count /\ max_vocab_size >= 0) => lv_min_reduce = 1

\* C18: while add_vocab is learning, the model's counter and min_reduce are
\* unchanged; they change only in the merge that ends the learning; a prune during
\* the learning uses the threshold 1 + the prunes of this learning so far, and
\* the first one prunes exactly the token and pair counts of the new sentences
\* (and when none has happened, learn_vocab's dict holds exactly those counts).
C18_TwoPhase ==
    [][LET learning == pc = "learning" /\ pc' = "learning"
           new == passes'[Len(passes')]
       IN  /\ learning => (vocab' = vocab /\ min_reduce' = min_reduce)
           /\ (vocab' # vocab \/ min_reduce' # min_reduce) =>
                 (pc = "learning" /\ pc' = "idle" /\ hist'.last_op = "merge")
           /\ (learning /\ hist'.prunes = hist.prunes + 1) =>
                 /\ hist'.prune_m = hist.lv_prunes + 1
                 /\ (hist.lv_prunes = 0) =>
                       CountsExactly(hist'.prune_before, Tokens, new)
           /\ (learning /\ hist'.prunes = hist.prunes /\ hist.lv_prunes = 0) =>
                 /\ CountsExactly(lv_vocab', Tokens, new)
                 /\ len(lv_vocab') <= max_vocab_size]_vars

\* a second add_vocab is learning, on a model that holds counts and whose
\* min_reduce is above 1, and has just pruned with the threshold 1
C18_Witness ==
    /\ pc = "learning"
    /\ Len(passes) = 2
    /\ vocab.d # DictWordCounter.d
    /\ min_reduce > 1
    /\ hist.last_op = "learn"
    /\ hist.lv_prunes = 1
    /\ hist.prune_m = 1

====
